---- MODULE Spec2Model ----
(***************************************************************************)
(* Model of the Maven metadata query service (src/main.py): six data       *)
(* handlers over one read-only SQLite table `gav`, each opening its own    *)
(* connection, running one or two fixed queries and closing the            *)
(* connection on its success path.                                         *)
(*                                                                         *)
(* Strings are sequences of one-character strings, so that splitext and    *)
(* LIKE are computed character by character.  last_modified is a           *)
(* timestamp string in the table; only its order matters to max(), so it   *)
(* is a natural number here.  The ten columns of a row that no query       *)
(* condition reads (size, sha1, ...) are copied positionally by gav2item   *)
(* and are left out.  SQL NULL / Python None is the empty sequence.        *)
(***************************************************************************)
EXTENDS Integers, Sequences, FiniteSets

VARIABLES db, pc, req, outcome, conn, cursor, item, nexec, resp

vars == <<db, pc, req, outcome, conn, cursor, item, nexec, resp>>

----------------------------------------------------------------------------
(* Program constants *)

MAXLEN_GROUP_ID == 254
MAXLEN_ARTIFACT_ID == 254
MAXLEN_ARTIFACT_VERSION == 128
MAXLEN_FILE_NAME == 512
PAGE_SIZE == 100
PAGE_SIZE_BIG == 1000

(* Bounds of the model *)

MaxRows == 3
MaxLimit == 2
MaxSkip == 2

----------------------------------------------------------------------------
(* The table and the requests clients send *)

GavRow(g, a, v, f, s, m) ==
    [group_id |-> g, artifact_id |-> a, artifact_version |-> v,
     file_name |-> f, version_seq |-> s, last_modified |-> m]

\* version_seq is a function of (group_id, artifact_id, artifact_version)
\* and orders the versions of one artifact; file_name is unique.
RowPool ==
    { GavRow(<<"g">>, <<"a">>, <<"1">>, <<"a", "1", ".", "j">>, 1, 1),
      GavRow(<<"g">>, <<"a">>, <<"2">>, <<"a", "2", ".", "j">>, 2, 3),
      GavRow(<<"g">>, <<"a">>, <<"2">>, <<"a", "2", "s", ".", "j">>, 2, 4),
      GavRow(<<"g">>, <<"a">>, <<"3">>, <<"a", "3", ".", "j">>, 3, 2),
      GavRow(<<"g">>, <<"b">>, <<"1">>, <<"b", "1", ".", "j">>, 1, 5) }

Datasets ==
    { s \in UNION { [1..n -> RowPool] : n \in 0..MaxRows } :
        \A i, j \in DOMAIN s : i # j => s[i] # s[j] }

\* every row of the pool, in one fixed table order
FullDataset ==
    << GavRow(<<"g">>, <<"a">>, <<"2">>, <<"a", "2", "s", ".", "j">>, 2, 4),
       GavRow(<<"g">>, <<"a">>, <<"1">>, <<"a", "1", ".", "j">>, 1, 1),
       GavRow(<<"g">>, <<"b">>, <<"1">>, <<"b", "1", ".", "j">>, 1, 5),
       GavRow(<<"g">>, <<"a">>, <<"3">>, <<"a", "3", ".", "j">>, 3, 2),
       GavRow(<<"g">>, <<"a">>, <<"2">>, <<"a", "2", ".", "j">>, 2, 3) >>

ConcurrentDatasets == {FullDataset, SubSeq(FullDataset, 1, 2)}

\* a path parameter is never empty: the route matches one or more characters
FileNames ==
    { <<".", "j">>,
      <<"a", "1", ".", "j">>,
      <<"a", "2", ".", "j">>,
      <<"a", "3", ".", "j">>,
      <<"A", "1", ".", "j">>,
      <<"_", "2", ".", "j">>,
      <<"c", "1", ".", "j">> }

Gavs ==
    { <<(<<"g">>), (<<"a">>), (<<"1">>)>>,
      <<(<<"g">>), (<<"a">>), (<<"2">>)>>,
      <<(<<"g">>), (<<"a">>), (<<"3">>)>>,
      <<(<<"g">>), (<<"b">>), (<<"1">>)>>,
      <<(<<"g">>), (<<"b">>), (<<"2">>)>> }

ListLimits == ((0 - 1)..MaxLimit) \cup {PAGE_SIZE, PAGE_SIZE + 1}
UpgradeLimits == ((0 - 1)..MaxLimit) \cup {PAGE_SIZE_BIG, PAGE_SIZE_BIG + 1}
Skips == (0 - 1)..MaxSkip

NoRequest == [h |-> "none"]

Requests ==
    { [h |-> "gav_file_name", file_name |-> f] : f \in FileNames }
    \cup { [h |-> "gav_file_last_modified", file_name |-> f] : f \in FileNames }
    \cup { [h |-> "gav_list", skip |-> s, limit |-> l] : s \in Skips, l \in ListLimits }
    \cup { [h |-> "gav", group_id |-> g[1], artifact_id |-> g[2],
            artifact_version |-> g[3]] : g \in Gavs }
    \cup { [h |-> "file_upgrade", file_name |-> f, limit |-> l] :
            f \in FileNames, l \in UpgradeLimits }
    \cup { [h |-> "gav_upgrade", group_id |-> g[1], artifact_id |-> g[2],
            artifact_version |-> g[3], limit |-> l] : g \in Gavs, l \in UpgradeLimits }

----------------------------------------------------------------------------
(* os.path.splitext, as gav_file_last_modified calls it *)

\* str.rfind: the last index of c in p, 0 when absent (Python's -1, 1-based)
RFind(p, c) ==
    LET hits == { i \in 1..Len(p) : p[i] = c }
    IN  IF hits = {} THEN 0 ELSE CHOOSE i \in hits : \A j \in hits : j <= i

\* genericpath._splitext: the extension starts at the last dot after the last
\* separator, unless only dots precede it (leading dots are not an extension)
SplitextIndex(p) ==
    LET sepIndex == RFind(p, "/")
        dotIndex == RFind(p, ".")
    IN  IF dotIndex > sepIndex
           /\ \E k \in (sepIndex + 1)..(dotIndex - 1) : p[k] # "."
        THEN dotIndex
        ELSE Len(p) + 1

\* filename_without_extension, the first component of os.path.splitext
SplitextRoot(p) == SubSeq(p, 1, SplitextIndex(p) - 1)

----------------------------------------------------------------------------
(* SQLite's LIKE operator (no ESCAPE clause, default case folding) *)

\* LIKE folds the case of ASCII letters
FoldCase(c) ==
    CASE c = "A" -> "a"
      [] c = "B" -> "b"
      [] c = "C" -> "c"
      [] c = "J" -> "j"
      [] c = "S" -> "s"
      [] OTHER -> c

RECURSIVE Like(_, _)
\* pat LIKE-matches s: % is any run of characters, _ is any one character
Like(pat, s) ==
    IF pat = <<>> THEN s = <<>>
    ELSE IF Head(pat) = "%"
         THEN Like(Tail(pat), s) \/ (s # <<>> /\ Like(pat, Tail(s)))
    ELSE IF Head(pat) = "_"
         THEN s # <<>> /\ Like(Tail(pat), Tail(s))
    ELSE s # <<>> /\ FoldCase(Head(pat)) = FoldCase(Head(s))
         /\ Like(Tail(pat), Tail(s))

----------------------------------------------------------------------------
(* The query catalog, as SQLite evaluates it on the table t (WHERE keeps
   table order: SelectSeq) *)

\* OFFSET n: a negative offset is no offset
Offset(rows, n) ==
    IF n <= 0 THEN rows ELSE SubSeq(rows, n + 1, Len(rows))

\* LIMIT n: a negative limit is no limit
Limit(rows, n) ==
    IF n < 0 \/ n >= Len(rows) THEN rows ELSE SubSeq(rows, 1, n)

MaxOf(S) == CHOOSE m \in S : \A x \in S : x <= m

\* SQL_GAV_SELECT_ALL: ... FROM gav LIMIT ? OFFSET ?
SelectAll(t, limit, skip) == Limit(Offset(t, skip), limit)

\* SQL_GAV_SELECT_FILE_NAME: ... WHERE file_name = ? LIMIT 1
SelectFileName(t, f) ==
    LET Cond(row) == row.file_name = f
    IN  Limit(SelectSeq(t, Cond), 1)

\* SQL_GAV_SELECT_FILE_LAST_MODIFIED: SELECT max(last_modified) ... WHERE
\* file_name LIKE ? LIMIT 1.  An aggregate without GROUP BY yields exactly
\* one row; its column is NULL when no row matches.
SelectFileLastModified(t, pattern) ==
    LET Cond(row) == Like(pattern, row.file_name)
        hit == SelectSeq(t, Cond)
        lms == { hit[i].last_modified : i \in DOMAIN hit }
    IN  Limit(<< [max |-> IF lms = {} THEN <<>> ELSE <<MaxOf(lms)>>] >>, 1)

\* SQL_GAV_SELECT_GAV: ... WHERE group_id = ? AND artifact_id = ? AND
\* artifact_version = ? LIMIT 100
SelectGav(t, g, a, v) ==
    LET Cond(row) == row.group_id = g /\ row.artifact_id = a
                     /\ row.artifact_version = v
    IN  Limit(SelectSeq(t, Cond), PAGE_SIZE)

\* the WHERE clause of SQL_GAV_UPGRADE
NewerOrSame(row, g, a, seq) ==
    row.group_id = g /\ row.artifact_id = a /\ row.version_seq >= seq

Newer(row, g, a, seq) ==
    row.group_id = g /\ row.artifact_id = a /\ row.version_seq > seq

\* ORDER BY version_seq: the elements of S by ascending version_seq
RECURSIVE OrderByVersionSeq(_)
OrderByVersionSeq(S) ==
    IF S = {} THEN <<>>
    ELSE LET first == CHOOSE x \in S : \A y \in S : x.version_seq <= y.version_seq
         IN  <<first>> \o OrderByVersionSeq(S \ {first})

\* SQL_GAV_UPGRADE: SELECT distinct artifact_version, max(last_modified) ...
\* WHERE ... GROUP BY artifact_version ORDER BY version_seq LIMIT ?
\* The bare column version_seq of a group is that of the row holding the
\* group's max(last_modified).
SelectUpgrade(t, g, a, seq, limit) ==
    LET Cond(row) == Newer(row, g, a, seq)
        hit == SelectSeq(t, Cond)
        rows == { hit[i] : i \in DOMAIN hit }
        versions == { r.artifact_version : r \in rows }
        Group(v) == { r \in rows : r.artifact_version = v }
        Top(v) == CHOOSE r \in Group(v) :
                      \A q \in Group(v) : q.last_modified <= r.last_modified
        groups == { [artifact_version |-> v,
                     last_modified |-> Top(v).last_modified,
                     version_seq |-> Top(v).version_seq] : v \in versions }
        sorted == OrderByVersionSeq(groups)
    IN  Limit([i \in DOMAIN sorted |->
                 [artifact_version |-> sorted[i].artifact_version,
                  last_modified |-> sorted[i].last_modified]], limit)

----------------------------------------------------------------------------
(* Requests, connections and responses *)

Workers == {1, 2}

\* the connection object request r works on: connect() makes a new one for
\* every call
SharedConnection(r) == 1

ConnOf(r) == r

Response(status, body) == [status |-> status, body |-> body]

NoResponse == Response(0, <<>>)

\* FastAPI's parameter validation: Path(max_length=...) and Query(le=...);
\* skip is any integer, and no limit has a lower bound
Valid(rq) ==
    CASE rq.h = "gav_file_name" -> Len(rq.file_name) <= MAXLEN_FILE_NAME
      [] rq.h = "gav_file_last_modified" -> Len(rq.file_name) <= MAXLEN_FILE_NAME
      [] rq.h = "gav_list" -> rq.limit <= PAGE_SIZE
      [] rq.h = "gav" ->
            /\ Len(rq.group_id) <= MAXLEN_GROUP_ID
            /\ Len(rq.artifact_id) <= MAXLEN_ARTIFACT_ID
            /\ Len(rq.artifact_version) <= MAXLEN_ARTIFACT_VERSION
      [] rq.h = "file_upgrade" ->
            /\ Len(rq.file_name) <= MAXLEN_FILE_NAME
            /\ rq.limit <= PAGE_SIZE_BIG
      [] rq.h = "gav_upgrade" ->
            /\ Len(rq.group_id) <= MAXLEN_GROUP_ID
            /\ Len(rq.artifact_id) <= MAXLEN_ARTIFACT_ID
            /\ Len(rq.artifact_version) <= MAXLEN_ARTIFACT_VERSION
            /\ rq.limit <= PAGE_SIZE_BIG

\* gav_file_last_modified's check before it connects
NameTooShort(rq) ==
    rq.h = "gav_file_last_modified" /\ Len(SplitextRoot(rq.file_name)) < 1

\* the handlers that read one row with fetchone(); the others use fetchall()
FetchesOne(rq) ==
    rq.h \in {"gav_file_name", "gav_file_last_modified", "file_upgrade", "gav_upgrade"}

IsUpgrade(rq) == rq.h \in {"file_upgrade", "gav_upgrade"}

\* the first statement a handler executes
Query1(t, rq) ==
    CASE rq.h = "gav_file_name" -> SelectFileName(t, rq.file_name)
      [] rq.h = "gav_file_last_modified" ->
            SelectFileLastModified(t, SplitextRoot(rq.file_name) \o <<"%">>)
      [] rq.h = "gav_list" -> SelectAll(t, rq.limit, rq.skip)
      [] rq.h = "gav" -> SelectGav(t, rq.group_id, rq.artifact_id, rq.artifact_version)
      [] rq.h = "file_upgrade" -> SelectFileName(t, rq.file_name)
      [] rq.h = "gav_upgrade" ->
            SelectGav(t, rq.group_id, rq.artifact_id, rq.artifact_version)

\* the second statement of file_upgrade and gav_upgrade, from the base item
Query2(t, rq, base) ==
    SelectUpgrade(t, base.group_id, base.artifact_id, base.version_seq, rq.limit)

\* what a handler answers from the rows its first statement fetched; the
\* upgrade handlers answer only when the base row is missing
Answer1(rq, rows) ==
    IF rows = <<>> THEN Response(404, <<>>)
    ELSE IF rq.h = "gav_file_last_modified"
         THEN IF rows[1].max = <<>>
              THEN Response(500, <<>>)
              ELSE Response(200, << [last_modified |-> rows[1].max[1]] >>)
    ELSE Response(200, rows)

\* what an upgrade handler answers from the rows of its second statement
Answer2(rows) ==
    IF rows = <<>> THEN Response(204, <<>>) ELSE Response(200, rows)

\* the response of one request handled alone on table t, when connect()
\* ends with outcome o
HandlerResponse(t, rq, o) ==
    IF ~Valid(rq) THEN Response(422, <<>>)
    ELSE IF NameTooShort(rq) THEN Response(400, <<>>)
    ELSE IF o \in {"open_failed", "pragma_failed"} THEN Response(503, <<>>)
    ELSE IF o = "pragma_error" THEN Response(500, <<>>)
    ELSE LET first == Query1(t, rq)
             rows == IF FetchesOne(rq) THEN Limit(first, 1) ELSE first
         IN  IF IsUpgrade(rq) /\ rows # <<>>
             THEN Answer2(Query2(t, rq, rows[1]))
             ELSE Answer1(rq, rows)

Init ==
    /\ db \in Datasets
    /\ pc = [r \in Workers |-> "idle"]
    /\ req = [r \in Workers |-> NoRequest]
    /\ outcome = [r \in Workers |-> "none"]
    /\ conn = [r \in Workers |-> "none"]
    /\ cursor = [r \in Workers |-> <<>>]
    /\ item = [r \in Workers |-> <<>>]
    /\ nexec = [r \in Workers |-> 0]
    /\ resp = [r \in Workers |-> NoResponse]

\* the tables the concurrent requests run on: the full one and a short one
InitConcurrent ==
    /\ db \in ConcurrentDatasets
    /\ pc = [r \in Workers |-> "idle"]
    /\ req = [r \in Workers |-> NoRequest]
    /\ outcome = [r \in Workers |-> "none"]
    /\ conn = [r \in Workers |-> "none"]
    /\ cursor = [r \in Workers |-> <<>>]
    /\ item = [r \in Workers |-> <<>>]
    /\ nexec = [r \in Workers |-> 0]
    /\ resp = [r \in Workers |-> NoResponse]

\* the handler returns or raises: the response goes out
Return(r, response) ==
    /\ pc' = [pc EXCEPT ![r] = "done"]
    /\ resp' = [resp EXCEPT ![r] = response]

\* a request arrives: parameter validation, then the handler up to connect()
Receive(r) ==
    /\ pc[r] = "idle"
    /\ \E rq \in Requests :
         /\ req' = [req EXCEPT ![r] = rq]
         /\ IF ~Valid(rq) THEN Return(r, Response(422, <<>>))
            ELSE IF NameTooShort(rq) THEN Return(r, Response(400, <<>>))
            ELSE pc' = [pc EXCEPT ![r] = "connect"] /\ resp' = resp
    /\ UNCHANGED <<db, outcome, conn, cursor, item, nexec>>

\* connect(): the file opens and every pragma is applied
ConnectOk(r) ==
    /\ pc[r] = "connect"
    /\ outcome' = [outcome EXCEPT ![r] = "ok"]
    /\ conn' = [conn EXCEPT ![ConnOf(r)] = "open"]
    /\ pc' = [pc EXCEPT ![r] = "exec1"]
    /\ UNCHANGED <<db, req, cursor, item, nexec, resp>>

\* connect(): sqlite3.connect raises OperationalError, no connection exists
ConnectOpenFails(r) ==
    /\ pc[r] = "connect"
    /\ outcome' = [outcome EXCEPT ![r] = "open_failed"]
    /\ Return(r, Response(503, <<>>))
    /\ UNCHANGED <<db, req, conn, cursor, item, nexec>>

\* connect(): a pragma raises OperationalError after the file was opened;
\* the except clause raises 503 and does not close conn
ConnectPragmaFails(r) ==
    /\ pc[r] = "connect"
    /\ outcome' = [outcome EXCEPT ![r] = "pragma_failed"]
    /\ conn' = [conn EXCEPT ![ConnOf(r)] = "open"]
    /\ Return(r, Response(503, <<>>))
    /\ UNCHANGED <<db, req, cursor, item, nexec>>

\* connect(): a pragma raises another sqlite3.Error (DatabaseError: file is
\* not a database), which the except clause does not catch
ConnectPragmaError(r) ==
    /\ pc[r] = "connect"
    /\ outcome' = [outcome EXCEPT ![r] = "pragma_error"]
    /\ conn' = [conn EXCEPT ![ConnOf(r)] = "open"]
    /\ Return(r, Response(500, <<>>))
    /\ UNCHANGED <<db, req, cursor, item, nexec>>

Connect(r) ==
    \/ ConnectOk(r)
    \/ ConnectOpenFails(r)
    \/ ConnectPragmaFails(r)
    \/ ConnectPragmaError(r)

\* cursor.execute of the first statement; sqlite3 raises ProgrammingError
\* on a closed connection
Execute1(r) ==
    /\ pc[r] = "exec1"
    /\ IF conn[ConnOf(r)] = "open"
       THEN /\ cursor' = [cursor EXCEPT ![r] = Query1(db, req[r])]
            /\ nexec' = [nexec EXCEPT ![r] = @ + 1]
            /\ pc' = [pc EXCEPT ![r] = "fetch1"]
            /\ resp' = resp
       ELSE /\ Return(r, Response(500, <<>>))
            /\ UNCHANGED <<cursor, nexec>>
    /\ UNCHANGED <<db, req, outcome, conn, item>>

\* fetchone()/fetchall() of the first statement and the rest of the handler
\* up to its next statement: 404 when no row came, else the item; the
\* connection is closed only on the path that returns
Fetch1(r) ==
    /\ pc[r] = "fetch1"
    /\ IF conn[ConnOf(r)] # "open"
       THEN /\ Return(r, Response(500, <<>>))
            /\ UNCHANGED <<cursor, item, conn>>
       ELSE LET rows == IF FetchesOne(req[r]) THEN Limit(cursor[r], 1) ELSE cursor[r]
                rest == IF FetchesOne(req[r]) /\ cursor[r] # <<>>
                        THEN Tail(cursor[r]) ELSE <<>>
                answer == Answer1(req[r], rows)
            IN  /\ cursor' = [cursor EXCEPT ![r] = rest]
                /\ IF IsUpgrade(req[r]) /\ rows # <<>>
                   THEN /\ item' = [item EXCEPT ![r] = rows]
                        /\ pc' = [pc EXCEPT ![r] = "exec2"]
                        /\ UNCHANGED <<resp, conn>>
                   ELSE /\ Return(r, answer)
                        /\ conn' = IF answer.status = 200
                                   THEN [conn EXCEPT ![ConnOf(r)] = "closed"]
                                   ELSE conn
                        /\ item' = item
    /\ UNCHANGED <<db, req, outcome, nexec>>

\* cursor.execute of SQL_GAV_UPGRADE with the base item's coordinates
Execute2(r) ==
    /\ pc[r] = "exec2"
    /\ IF conn[ConnOf(r)] = "open"
       THEN /\ cursor' = [cursor EXCEPT ![r] = Query2(db, req[r], item[r][1])]
            /\ nexec' = [nexec EXCEPT ![r] = @ + 1]
            /\ pc' = [pc EXCEPT ![r] = "fetch2"]
            /\ resp' = resp
       ELSE /\ Return(r, Response(500, <<>>))
            /\ UNCHANGED <<cursor, nexec>>
    /\ UNCHANGED <<db, req, outcome, conn, item>>

\* fetchall() of the upgrade rows: 204 when none came, else the list; the
\* connection is closed only on the path that returns
Fetch2(r) ==
    /\ pc[r] = "fetch2"
    /\ IF conn[ConnOf(r)] # "open"
       THEN /\ Return(r, Response(500, <<>>))
            /\ UNCHANGED <<cursor, conn>>
       ELSE LET answer == Answer2(cursor[r])
            IN  /\ cursor' = [cursor EXCEPT ![r] = <<>>]
                /\ Return(r, answer)
                /\ conn' = IF answer.status = 200
                           THEN [conn EXCEPT ![ConnOf(r)] = "closed"]
                           ELSE conn
    /\ UNCHANGED <<db, req, outcome, item, nexec>>

Step(r) ==
    \/ Receive(r)
    \/ Connect(r)
    \/ Execute1(r)
    \/ Fetch1(r)
    \/ Execute2(r)
    \/ Fetch2(r)

\* one request at a time, over every dataset of at most MaxRows rows
Next == Step(1)

Spec == Init /\ [][Next]_vars

\* two requests in any interleaving of their steps
NextConcurrent == \E r \in Workers : Step(r)

SpecConcurrent == InitConcurrent /\ [][NextConcurrent]_vars

----------------------------------------------------------------------------
(* Vocabulary of the properties, stated on the table itself *)

Done(r) == pc[r] = "done"

TableRows == { db[i] : i \in DOMAIN db }

\* s begins with p, character for character
StartsWith(s, p) == Len(p) <= Len(s) /\ SubSeq(s, 1, Len(p)) = p

\* a file name without its final extension: what precedes its last dot
NameMinusExtension(f) ==
    IF RFind(f, ".") = 0 THEN f ELSE SubSeq(f, 1, RFind(f, ".") - 1)

MinOf2(x, y) == IF x <= y THEN x ELSE y

\* the base rows an upgrade request names
BaseRows(rq) ==
    IF rq.h = "file_upgrade"
    THEN { row \in TableRows : row.file_name = rq.file_name }
    ELSE { row \in TableRows : /\ row.group_id = rq.group_id
                               /\ row.artifact_id = rq.artifact_id
                               /\ row.artifact_version = rq.artifact_version }

\* the rows of the base's group_id and artifact_id with a greater version_seq
NewerRows(base) ==
    { row \in TableRows : /\ row.group_id = base.group_id
                          /\ row.artifact_id = base.artifact_id
                          /\ row.version_seq > base.version_seq }

----------------------------------------------------------------------------
(* C1: when a request has ended (the handler returned or raised, on any of
   its exit paths), the connection that connect() returned to it is not open
   any more. *)
C1_NoConnectionOutlivesRequest ==
    \A r \in Workers :
        (Done(r) /\ outcome[r] = "ok") => conn[ConnOf(r)] # "open"

(* C2: a filelastmodified request whose connection opened, and for which no
   row's file_name starts with the name minus its final extension, is
   answered 404. *)
C2_LastModifiedMissingIs404 ==
    \A r \in Workers :
        ( /\ Done(r)
          /\ req[r].h = "gav_file_last_modified"
          /\ outcome[r] = "ok"
          /\ ~ \E row \in TableRows :
                 StartsWith(row.file_name, NameMinusExtension(req[r].file_name)) )
        => resp[r].status = 404

(* C3: a filelastmodified request whose name minus its final extension is
   empty never opens a connection or executes a query, and is answered
   400. *)
C3_EmptyStemIs400 ==
    \A r \in Workers :
        ( /\ req[r].h = "gav_file_last_modified"
          /\ NameMinusExtension(req[r].file_name) = <<>> )
        => /\ conn[ConnOf(r)] = "none"
           /\ nexec[r] = 0
           /\ Done(r) => resp[r].status = 400

(* C4: a list request is rejected by validation, or its 200 response holds
   at most min(limit, PAGE_SIZE) records; a limit above PAGE_SIZE never
   reaches the List query. *)
C4_ListAtMostMinLimitPageSize ==
    \A r \in Workers :
        req[r].h = "gav_list" =>
            /\ (req[r].limit > PAGE_SIZE => nexec[r] = 0)
            /\ (Done(r) /\ resp[r].status = 200) =>
                   Len(resp[r].body) <= MinOf2(req[r].limit, PAGE_SIZE)

\* the parts of C5 other than the count: the records come from newer rows of
\* the base's artifact, one per artifact_version, by ascending version_seq
UpgradeRecordsSound(r) ==
    LET base == item[r][1]
        body == resp[r].body
        SeqOf(v) == (CHOOSE row \in NewerRows(base) : row.artifact_version = v).version_seq
    IN  /\ \A i \in DOMAIN body :
              \E row \in NewerRows(base) :
                  /\ row.artifact_version = body[i].artifact_version
                  /\ row.last_modified = body[i].last_modified
        /\ \A i, j \in DOMAIN body :
              i < j => /\ body[i].artifact_version # body[j].artifact_version
                       /\ SeqOf(body[i].artifact_version) < SeqOf(body[j].artifact_version)

(* C5: the records an upgrade request returns come only from rows of the
   base's group_id and artifact_id with a greater version_seq, hold each
   artifact_version once, ascend in version_seq, and number at most
   limit. *)
C5_NewerVersionsBounded ==
    \A r \in Workers :
        (Done(r) /\ IsUpgrade(req[r]) /\ resp[r].status = 200) =>
            /\ UpgradeRecordsSound(r)
            /\ Len(resp[r].body) <= req[r].limit

(* C5, without the count: holds of every 200 upgrade response. *)
C5_RecordsSound ==
    \A r \in Workers :
        (Done(r) /\ IsUpgrade(req[r]) /\ resp[r].status = 200) =>
            UpgradeRecordsSound(r)

\* the body is a non-empty list of (artifact_version, last_modified) records
IsUpgradeList(body) ==
    /\ body # <<>>
    /\ \A i \in DOMAIN body : DOMAIN body[i] = {"artifact_version", "last_modified"}

(* C6 as claimed: an upgrade request with an accepted limit whose connection
   opened is answered 404 when the base is absent, 204 when the base exists
   and has no newer row, and 200 with a non-empty list when the base exists
   and has a newer row. *)
C6_UpgradeStatusAsClaimed ==
    \A r \in Workers :
        (Done(r) /\ IsUpgrade(req[r]) /\ outcome[r] = "ok") =>
            LET bases == BaseRows(req[r])
            IN  /\ bases = {} => resp[r].status = 404
                /\ (bases # {} /\ \A b \in bases : NewerRows(b) = {})
                       => resp[r].status = 204
                /\ (bases # {} /\ \A b \in bases : NewerRows(b) # {})
                       => resp[r].status = 200 /\ IsUpgradeList(resp[r].body)

(* C6 amended: as claimed for every accepted limit other than 0; with
   limit 0 the answer is 204 whenever the base exists. *)
C6_UpgradeStatus ==
    \A r \in Workers :
        (Done(r) /\ IsUpgrade(req[r]) /\ outcome[r] = "ok") =>
            LET bases == BaseRows(req[r])
            IN  /\ bases = {} => resp[r].status = 404
                /\ (bases # {} /\ \A b \in bases : NewerRows(b) = {})
                       => resp[r].status = 204
                /\ (bases # {} /\ req[r].limit = 0) => resp[r].status = 204
                /\ (bases # {} /\ req[r].limit # 0 /\ \A b \in bases : NewerRows(b) # {})
                       => resp[r].status = 200 /\ IsUpgradeList(resp[r].body)

\* a file_upgrade request with a base row and a newer row was answered 200
C6_Witness ==
    /\ Done(1)
    /\ req[1].h = "file_upgrade"
    /\ req[1].limit = 1
    /\ BaseRows(req[1]) # {}
    /\ \A b \in BaseRows(req[1]) : Cardinality(NewerRows(b)) >= 2
    /\ resp[1].status = 200
    /\ Len(resp[1].body) = 1

(* C7: the value a filelastmodified request returns is the maximum
   last_modified over exactly the rows whose file_name begins, character for
   character, with the requested name's prefix. *)
C7_MaxOverLiteralPrefix ==
    \A r \in Workers :
        (Done(r) /\ req[r].h = "gav_file_last_modified" /\ resp[r].status = 200) =>
            LET prefix == SplitextRoot(req[r].file_name)
                lms == { row.last_modified : row \in
                           { x \in TableRows : StartsWith(x.file_name, prefix) } }
            IN  /\ lms # {}
                /\ resp[r].body[1].last_modified = MaxOf(lms)

(* C8: when connect() meets an operational failure (the file cannot be
   opened, a pragma cannot be applied), the request is answered 503, no
   catalog query is executed, and no connection is left open. *)
C8_ConnectFailureIs503AndClean ==
    \A r \in Workers :
        outcome[r] \in {"open_failed", "pragma_failed"} =>
            /\ Done(r)
            /\ resp[r].status = 503
            /\ nexec[r] = 0
            /\ conn[ConnOf(r)] # "open"

(* C9: on the same table, the page of (limit L, skip O) and the page of
   (limit L, skip O + L) have no row in common. *)
C9_NextPageDisjoint ==
    \A r1, r2 \in Workers :
        ( /\ Done(r1) /\ Done(r2)
          /\ req[r1].h = "gav_list" /\ req[r2].h = "gav_list"
          /\ resp[r1].status = 200 /\ resp[r2].status = 200
          /\ req[r1].limit = req[r2].limit
          /\ req[r2].skip = req[r1].skip + req[r1].limit )
        => { resp[r1].body[i] : i \in DOMAIN resp[r1].body }
             \cap { resp[r2].body[i] : i \in DOMAIN resp[r2].body } = {}

(* C10: in every interleaving of the steps of concurrent requests, no step
   changes the table, and each request that ends is answered what it would
   be answered alone on the same table (for the outcome of its own
   connect()). *)
C10_RequestsIndependent ==
    [][ /\ db' = db
        /\ \A r \in Workers :
              pc'[r] = "done" =>
                  resp'[r] = HandlerResponse(db, req'[r], outcome'[r]) ]_vars

\* request 1 has been answered from its two queries while request 2, holding
\* its own connection, has executed its query and not yet fetched
C10_Witness ==
    /\ Done(1)
    /\ nexec[1] = 2
    /\ resp[1].status = 200
    /\ conn[ConnOf(1)] = "closed"
    /\ pc[2] = "fetch1"
    /\ conn[ConnOf(2)] = "open"
    /\ cursor[2] # <<>>
    /\ req[2] # req[1]

====
